---- MODULE Spec2Model ----
(***************************************************************************)
(* UdpFramed<C> of src/net/udp_framed.rs: a Stream and Sink over one       *)
(* non-blocking UdpSocket, with a codec C and a handle to the node State.  *)
(* Every Stream/Sink method is one action.  The socket's answer to the     *)
(* poll_recv_from / poll_send_to call made by the method is an input of    *)
(* the action.                                                             *)
(***************************************************************************)
EXTENDS Integers, Sequences, FiniteSets, TLC

\* ------------------------------------------------------------------ bounds
\* Largest number of frames the send buffer holds in the model.
MaxFrames == 2

\* ------------------------------------------------------- program constants
INITIAL_RD_CAPACITY == 65536

\* ------------------------------------------------------------ Option, Poll
None == <<>>
Some(x) == <<x>>

Ready(v)    == [tag |-> "Ready", val |-> v]
NotReady(v) == [tag |-> "NotReady", val |-> v]
Err(e)      == [tag |-> "Err", val |-> <<e>>]

\* ---------------------------------------------------------------- addresses
\* std::net::SocketAddr: family, ip and port.
SockAddr(f, i, p) == [fam |-> f, ip |-> i, port |-> p]

\* The value `new` puts in out_addr: 0.0.0.0:0.
UnspecAddr == SockAddr("V4", 0, 0)
\* The address the adapter's own socket is bound to (a send to it loops back).
SelfAddr == SockAddr("V4", 1, 1)
PeerA == SockAddr("V6", 2, 1)
Dests == {SelfAddr, PeerA}

\* utils::to_ipv6: an IPv4 address becomes its IPv4-mapped IPv6 address
\* (::ffff:a.b.c.d, here ip + MappedBase), an IPv6 address is kept.
MappedBase == 100
to_ipv6(a) ==
    IF a.fam = "V4" THEN SockAddr("V6", a.ip + MappedBase, a.port) ELSE a

\* -------------------------------------------------------------------- codec
\* Frames the codec encodes, and one it refuses to encode.
Frames == {1, 2}
BadFrame == 3
AllFrames == Frames \cup {BadFrame}
Items == [frame : AllFrames, addr : Dests]

\* Wire format of the codec: a header byte followed by the frame's byte.
Hdr == 7
FrameLen == 2

\* Encoder::encode(frame, &mut buf): appends the frame's bytes to buf, or
\* fails and appends nothing.
encode(frame, buf) ==
    IF frame \in Frames
    THEN [ok |-> TRUE, buf |-> buf \o <<Hdr, frame>>]
    ELSE [ok |-> FALSE, buf |-> buf]

\* Decoder::decode(&mut buf): an empty datagram is no frame, a datagram that
\* starts with a whole frame is that frame, anything else is an error.
decode(buf) ==
    IF Len(buf) = 0 THEN [ok |-> TRUE, frame |-> None]
    ELSE IF Len(buf) >= FrameLen /\ buf[1] = Hdr /\ buf[2] \in Frames
         THEN [ok |-> TRUE, frame |-> Some(buf[2])]
         ELSE [ok |-> FALSE, frame |-> None]

\* The frames whose whole encoding lies in buf, in order.
RECURSIVE FramesIn(_)
FramesIn(buf) ==
    IF Len(buf) < FrameLen THEN <<>>
    ELSE IF buf[1] = Hdr /\ buf[2] \in Frames
         THEN <<buf[2]>> \o FramesIn(SubSeq(buf, FrameLen + 1, Len(buf)))
         ELSE FramesIn(Tail(buf))

\* ------------------------------------------------------------------- socket
\* What poll_send_to(buf, addr) may answer: Ok(NotReady), Ok(Ready(n)) with
\* n <= len, Err of kind WouldBlock, Err of another kind.
SendOutcomes(buf) ==
    {[kind |-> "NotReady", n |-> 0], [kind |-> "ErrWouldBlock", n |-> 0],
     [kind |-> "ErrOther", n |-> 0]}
    \cup {[kind |-> "Ready", n |-> k] : k \in {Len(buf) - 1, Len(buf)} \cap Nat}

\* No poll_send_to call is made.
NoAnswer == [kind |-> "None", n |-> 0]

\* The answers a Sink method may draw: it calls poll_send_to only when the
\* adapter is not flushed.
SocketAnswers(s) == IF s.flushed THEN {NoAnswer} ELSE SendOutcomes(s.wr)

WouldBlock(out) == out.kind \in {"NotReady", "ErrWouldBlock"}

\* Datagrams other hosts send to the adapter's socket.
ExtData == {<<>>, <<Hdr, 1>>, <<0>>}
ExtDatagrams == [data : ExtData, src : {PeerA}, items : {<<>>}]

\* ------------------------------------------------------------------- state
VARIABLES
    rd,          \* self.rd: the receive buffer's content
    wr,          \* self.wr: the send buffer's content
    out_addr,    \* self.out_addr
    flushed,     \* self.flushed
    net,         \* the datagram sent to SelfAddr and not yet received, if any
    op,          \* the method called last
    arg,         \* its argument (start_send's item), if any
    ret,         \* what it returned
    sends,       \* the poll_send_to calls it made
    removes,     \* the State::remove_peer calls it made (node_state)
    decodes,     \* the buffers it handed to decode
    recvd        \* what poll_recv_from answered it, if it was called

vars == <<rd, wr, out_addr, flushed, net,
          op, arg, ret, sends, removes, decodes, recvd>>

\* The adapter's fields as one value.
Self == [rd |-> rd, wr |-> wr, out_addr |-> out_addr, flushed |-> flushed]

\* UdpFramed::new
new == [rd |-> <<>>, wr |-> <<>>, out_addr |-> UnspecAddr, flushed |-> TRUE]

\* What a method did: the adapter after it, its result and its calls.
Outcome(s, r, snd, rem) ==
    [self |-> s, ret |-> r, sends |-> snd, removes |-> rem]

\* ---- variants of poll_complete with a seeded fault ----
\* remove_peer is given out_addr as it is, not to_ipv6(out_addr).
poll_complete_raw_addr(s, out) ==
    IF s.flushed THEN Outcome(s, Ready(<<>>), <<>>, <<>>)
    ELSE
      LET call == [data |-> s.wr, addr |-> s.out_addr, res |-> out] IN
      CASE out.kind = "NotReady" ->
             Outcome(s, NotReady(<<>>), <<call>>, <<>>)
        [] out.kind = "Ready" ->
             Outcome([s EXCEPT !.wr = <<>>, !.flushed = TRUE],
                     Ready(<<>>), <<call>>, <<>>)
        [] out.kind = "ErrWouldBlock" ->
             Outcome(s, NotReady(<<>>), <<call>>, <<>>)
        [] out.kind = "ErrOther" ->
             Outcome(s, Ready(<<>>), <<call>>, <<s.out_addr>>)

\* A partial write keeps the bytes not written and stays unflushed.
poll_complete_keep_rest(s, out) ==
    IF s.flushed THEN Outcome(s, Ready(<<>>), <<>>, <<>>)
    ELSE
      LET call == [data |-> s.wr, addr |-> s.out_addr, res |-> out] IN
      CASE out.kind = "NotReady" ->
             Outcome(s, NotReady(<<>>), <<call>>, <<>>)
        [] out.kind = "Ready" ->
             IF out.n = Len(s.wr)
             THEN Outcome([s EXCEPT !.wr = <<>>, !.flushed = TRUE],
                          Ready(<<>>), <<call>>, <<>>)
             ELSE Outcome([s EXCEPT !.wr = SubSeq(s.wr, out.n + 1, Len(s.wr))],
                          Ready(<<>>), <<call>>, <<>>)
        [] out.kind = "ErrWouldBlock" ->
             Outcome(s, NotReady(<<>>), <<call>>, <<>>)
        [] out.kind = "ErrOther" ->
             Outcome(s, Ready(<<>>), <<call>>, <<to_ipv6(s.out_addr)>>)

\* A hard send error is returned to the caller (as tokio's UdpFramed does).
poll_complete_propagate(s, out) ==
    IF s.flushed THEN Outcome(s, Ready(<<>>), <<>>, <<>>)
    ELSE
      LET call == [data |-> s.wr, addr |-> s.out_addr, res |-> out] IN
      CASE out.kind = "NotReady" ->
             Outcome(s, NotReady(<<>>), <<call>>, <<>>)
        [] out.kind = "Ready" ->
             Outcome([s EXCEPT !.wr = <<>>, !.flushed = TRUE],
                     Ready(<<>>), <<call>>, <<>>)
        [] out.kind = "ErrWouldBlock" ->
             Outcome(s, NotReady(<<>>), <<call>>, <<>>)
        [] out.kind = "ErrOther" ->
             Outcome(s, Err("Io"), <<call>>, <<>>)

\* A write of fewer bytes than the frame is taken for a failing peer.
poll_complete_evict_partial(s, out) ==
    IF s.flushed THEN Outcome(s, Ready(<<>>), <<>>, <<>>)
    ELSE
      LET call == [data |-> s.wr, addr |-> s.out_addr, res |-> out] IN
      CASE out.kind = "NotReady" ->
             Outcome(s, NotReady(<<>>), <<call>>, <<>>)
        [] out.kind = "Ready" ->
             Outcome([s EXCEPT !.wr = <<>>, !.flushed = TRUE],
                     Ready(<<>>), <<call>>,
                     IF out.n = Len(s.wr) THEN <<>>
                     ELSE <<to_ipv6(s.out_addr)>>)
        [] out.kind = "ErrWouldBlock" ->
             Outcome(s, NotReady(<<>>), <<call>>, <<>>)
        [] out.kind = "ErrOther" ->
             Outcome(s, Ready(<<>>), <<call>>, <<to_ipv6(s.out_addr)>>)

\* The error kind is not looked at: WouldBlock is taken for a hard error.
poll_complete_no_kind_check(s, out) ==
    IF s.flushed THEN Outcome(s, Ready(<<>>), <<>>, <<>>)
    ELSE
      LET call == [data |-> s.wr, addr |-> s.out_addr, res |-> out] IN
      CASE out.kind = "NotReady" ->
             Outcome(s, NotReady(<<>>), <<call>>, <<>>)
        [] out.kind = "Ready" ->
             Outcome([s EXCEPT !.wr = <<>>, !.flushed = TRUE],
                     Ready(<<>>), <<call>>, <<>>)
        [] out.kind \in {"ErrWouldBlock", "ErrOther"} ->
             Outcome(s, Ready(<<>>), <<call>>, <<to_ipv6(s.out_addr)>>)

\* The flushed flag is not looked at: the buffer is sent even when nothing is
\* owed.
poll_complete_no_guard(s, out) ==
    LET call == [data |-> s.wr, addr |-> s.out_addr, res |-> out] IN
    CASE out.kind \in {"NotReady", "ErrWouldBlock"} ->
           Outcome(s, NotReady(<<>>), <<call>>, <<>>)
      [] out.kind \in {"Ready", "None"} ->
           Outcome([s EXCEPT !.wr = <<>>, !.flushed = TRUE],
                   Ready(<<>>), <<call>>, <<>>)
      [] out.kind = "ErrOther" ->
           Outcome(s, Ready(<<>>), <<call>>, <<to_ipv6(s.out_addr)>>)

\* Sink::poll_complete, with `out` the answer of poll_send_to if it is called.
poll_complete(s, out) ==
    IF s.flushed THEN Outcome(s, Ready(<<>>), <<>>, <<>>)
    ELSE
      LET call == [data |-> s.wr, addr |-> s.out_addr, res |-> out] IN
      CASE out.kind = "NotReady" ->
             Outcome(s, NotReady(<<>>), <<call>>, <<>>)
        [] out.kind = "Ready" ->
             Outcome([s EXCEPT !.wr = <<>>, !.flushed = TRUE],
                     Ready(<<>>), <<call>>, <<>>)
        [] out.kind = "ErrWouldBlock" ->
             Outcome(s, NotReady(<<>>), <<call>>, <<>>)
        [] out.kind = "ErrOther" ->
             Outcome(s, Ready(<<>>), <<call>>, <<to_ipv6(s.out_addr)>>)

\* ---- variant of start_send with a seeded fault ----
\* The item is encoded before the pending frame's flush is known to be done.
start_send_encode_first(s, item, out) ==
    LET fl == IF ~s.flushed THEN poll_complete(s, out)
              ELSE Outcome(s, Ready(<<>>), <<>>, <<>>)
        s1 == fl.self
        e  == encode(item.frame, s1.wr)
    IN  IF fl.ret.tag = "Err" THEN fl
        ELSE IF ~e.ok
        THEN Outcome([s1 EXCEPT !.wr = e.buf], Err("Encode"), fl.sends, fl.removes)
        ELSE IF fl.ret.tag = "NotReady"
        THEN Outcome([s1 EXCEPT !.wr = e.buf, !.out_addr = item.addr],
                     NotReady(<<item>>), fl.sends, fl.removes)
        ELSE Outcome([s1 EXCEPT !.wr = e.buf, !.out_addr = item.addr,
                                !.flushed = FALSE],
                     Ready(<<>>), fl.sends, fl.removes)

\* out_addr and flushed are assigned before the item is encoded.
start_send_assign_first(s, item, out) ==
    LET fl == IF ~s.flushed THEN poll_complete(s, out)
              ELSE Outcome(s, Ready(<<>>), <<>>, <<>>)
        s1 == fl.self
        e  == encode(item.frame, s1.wr)
    IN  IF fl.ret.tag = "Err" THEN fl
        ELSE IF fl.ret.tag = "NotReady"
        THEN Outcome(s1, NotReady(<<item>>), fl.sends, fl.removes)
        ELSE IF ~e.ok
        THEN Outcome([s1 EXCEPT !.wr = e.buf, !.out_addr = item.addr,
                                !.flushed = FALSE],
                     Err("Encode"), fl.sends, fl.removes)
        ELSE Outcome([s1 EXCEPT !.wr = e.buf, !.out_addr = item.addr,
                                !.flushed = FALSE],
                     Ready(<<>>), fl.sends, fl.removes)

\* The item is encoded whether or not the flush of the pending frame would
\* block.
start_send_no_wait(s, item, out) ==
    LET fl == IF ~s.flushed THEN poll_complete(s, out)
              ELSE Outcome(s, Ready(<<>>), <<>>, <<>>)
        s1 == fl.self
        e  == encode(item.frame, s1.wr)
    IN  IF fl.ret.tag = "Err" THEN fl
        ELSE IF ~e.ok
        THEN Outcome([s1 EXCEPT !.wr = e.buf], Err("Encode"), fl.sends, fl.removes)
        ELSE Outcome([s1 EXCEPT !.wr = e.buf, !.out_addr = item.addr,
                                !.flushed = FALSE],
                     Ready(<<>>), fl.sends, fl.removes)

\* Sink::start_send(item), with `out` the answer of poll_send_to if the flush
\* calls it.
start_send(s, item, out) ==
    LET fl == IF ~s.flushed THEN poll_complete(s, out)
              ELSE Outcome(s, Ready(<<>>), <<>>, <<>>)
        s1 == fl.self
        e  == encode(item.frame, s1.wr)
    IN  IF fl.ret.tag = "Err" THEN fl
        ELSE IF fl.ret.tag = "NotReady"
        THEN Outcome(s1, NotReady(<<item>>), fl.sends, fl.removes)
        ELSE IF ~e.ok
        THEN Outcome([s1 EXCEPT !.wr = e.buf], Err("Encode"), fl.sends, fl.removes)
        ELSE Outcome([s1 EXCEPT !.wr = e.buf, !.out_addr = item.addr,
                                !.flushed = FALSE],
                     Ready(<<>>), fl.sends, fl.removes)

\* close reports completion whatever the flush answered.
close_always_ready(s, out) ==
    LET fl == poll_complete(s, out)
    IN  Outcome(fl.self, Ready(<<>>), fl.sends, fl.removes)

\* Sink::close
close(s, out) ==
    LET fl == poll_complete(s, out)
    IN  IF fl.ret.tag \in {"Err", "NotReady"} THEN fl
        ELSE Outcome(fl.self, Ready(<<>>), fl.sends, fl.removes)

\* What poll_recv_from may answer: Ok(NotReady), Err, or a datagram.
RecvOutcomes(dgrams) ==
    {[kind |-> "NotReady", dgram |-> None], [kind |-> "Err", dgram |-> None]}
    \cup {[kind |-> "Ready", dgram |-> Some(d)] : d \in dgrams}

\* No poll_recv_from call was made.
NoRecv == [kind |-> "None", dgram |-> None]

Min(a, b) == IF a < b THEN a ELSE b

\* What poll did: the adapter after it, its result, the buffers it decoded.
PollOutcome(s, r, dec) == [self |-> s, ret |-> r, decodes |-> dec]

\* ---- variants of poll with a seeded fault ----
\* The decode error is returned before the buffer is cleared.
poll_clear_after_try(s, rcv) ==
    CASE rcv.kind = "NotReady" -> PollOutcome(s, NotReady(<<>>), <<>>)
      [] rcv.kind = "Err" -> PollOutcome(s, Err("Io"), <<>>)
      [] rcv.kind = "Ready" ->
           LET d    == rcv.dgram[1]
               n    == Min(Len(d.data), INITIAL_RD_CAPACITY)
               buf  == s.rd \o SubSeq(d.data, 1, n)
               res  == decode(buf)
               s1   == [s EXCEPT !.rd = <<>>]
           IN  IF ~res.ok
               THEN PollOutcome([s EXCEPT !.rd = buf], Err("Decode"), <<buf>>)
               ELSE IF res.frame = None
               THEN PollOutcome(s1, Ready(None), <<buf>>)
               ELSE PollOutcome(s1,
                        Ready(Some([frame |-> res.frame[1], addr |-> d.src])),
                        <<buf>>)

\* A receive error is taken for "no datagram yet".
poll_swallow_recv_err(s, rcv) ==
    CASE rcv.kind = "NotReady" -> PollOutcome(s, NotReady(<<>>), <<>>)
      [] rcv.kind = "Err" -> PollOutcome(s, NotReady(<<>>), <<>>)
      [] rcv.kind = "Ready" ->
           LET d    == rcv.dgram[1]
               n    == Min(Len(d.data), INITIAL_RD_CAPACITY)
               buf  == s.rd \o SubSeq(d.data, 1, n)
               res  == decode(buf)
               s1   == [s EXCEPT !.rd = <<>>]
           IN  IF ~res.ok THEN PollOutcome(s1, Err("Decode"), <<buf>>)
               ELSE IF res.frame = None
               THEN PollOutcome(s1, Ready(None), <<buf>>)
               ELSE PollOutcome(s1,
                        Ready(Some([frame |-> res.frame[1], addr |-> d.src])),
                        <<buf>>)

\* "No datagram yet" is taken for a datagram of no bytes: the buffer is
\* decoded all the same.
poll_decode_on_not_ready(s, rcv) ==
    CASE rcv.kind = "NotReady" ->
           LET res == decode(s.rd)
               s1  == [s EXCEPT !.rd = <<>>]
           IN  IF ~res.ok THEN PollOutcome(s1, Err("Decode"), <<s.rd>>)
               ELSE PollOutcome(s1, Ready(None), <<s.rd>>)
      [] rcv.kind = "Err" -> PollOutcome(s, Err("Io"), <<>>)
      [] rcv.kind = "Ready" ->
           LET d    == rcv.dgram[1]
               n    == Min(Len(d.data), INITIAL_RD_CAPACITY)
               buf  == s.rd \o SubSeq(d.data, 1, n)
               res  == decode(buf)
               s1   == [s EXCEPT !.rd = <<>>]
           IN  IF ~res.ok THEN PollOutcome(s1, Err("Decode"), <<buf>>)
               ELSE IF res.frame = None
               THEN PollOutcome(s1, Ready(None), <<buf>>)
               ELSE PollOutcome(s1,
                        Ready(Some([frame |-> res.frame[1], addr |-> d.src])),
                        <<buf>>)

\* Both buffers are cleared after the decode.
poll_clear_both(s, rcv) ==
    CASE rcv.kind = "NotReady" -> PollOutcome(s, NotReady(<<>>), <<>>)
      [] rcv.kind = "Err" -> PollOutcome(s, Err("Io"), <<>>)
      [] rcv.kind = "Ready" ->
           LET d    == rcv.dgram[1]
               n    == Min(Len(d.data), INITIAL_RD_CAPACITY)
               buf  == s.rd \o SubSeq(d.data, 1, n)
               res  == decode(buf)
               s1   == [s EXCEPT !.rd = <<>>, !.wr = <<>>]
           IN  IF ~res.ok THEN PollOutcome(s1, Err("Decode"), <<buf>>)
               ELSE IF res.frame = None
               THEN PollOutcome(s1, Ready(None), <<buf>>)
               ELSE PollOutcome(s1,
                        Ready(Some([frame |-> res.frame[1], addr |-> d.src])),
                        <<buf>>)

\* Stream::poll, with `rcv` the answer of poll_recv_from.
poll(s, rcv) ==
    CASE rcv.kind = "NotReady" -> PollOutcome(s, NotReady(<<>>), <<>>)
      [] rcv.kind = "Err" -> PollOutcome(s, Err("Io"), <<>>)
      [] rcv.kind = "Ready" ->
           LET d    == rcv.dgram[1]
               n    == Min(Len(d.data), INITIAL_RD_CAPACITY)
               buf  == s.rd \o SubSeq(d.data, 1, n)
               res  == decode(buf)
               s1   == [s EXCEPT !.rd = <<>>]
           IN  IF ~res.ok THEN PollOutcome(s1, Err("Decode"), <<buf>>)
               ELSE IF res.frame = None
               THEN PollOutcome(s1, Ready(None), <<buf>>)
               ELSE PollOutcome(s1,
                        Ready(Some([frame |-> res.frame[1], addr |-> d.src])),
                        <<buf>>)


Init ==
    /\ rd = new.rd
    /\ wr = new.wr
    /\ out_addr = new.out_addr
    /\ flushed = new.flushed
    /\ net = <<>>
    /\ op = "new"
    /\ arg = None
    /\ ret = Ready(<<>>)
    /\ sends = <<>>
    /\ removes = <<>>
    /\ decodes = <<>>
    /\ recvd = NoRecv
\* The datagrams the calls `snd` put on the wire towards the adapter's own
\* socket: the n bytes written, and the frames a full write carried.
RECURSIVE Looped(_)
Looped(snd) ==
    IF snd = <<>> THEN <<>>
    ELSE LET c == Head(snd) IN
         IF c.res.kind = "Ready" /\ c.addr = SelfAddr
         THEN <<[data  |-> SubSeq(c.data, 1, c.res.n), src |-> SelfAddr,
                 items |-> IF c.res.n = Len(c.data) THEN FramesIn(c.data)
                           ELSE <<>>]>> \o Looped(Tail(snd))
         ELSE Looped(Tail(snd))

\* UDP is lossy: one datagram is in flight at most, and a datagram sent while
\* another is in flight is lost.
Deliver(q, ds) == IF q # <<>> \/ ds = <<>> THEN q ELSE <<Head(ds)>>

\* The effect of a Sink method on the state.
SinkStep(name, a, r) ==
    /\ wr' = r.self.wr
    /\ out_addr' = r.self.out_addr
    /\ flushed' = r.self.flushed
    /\ rd' = r.self.rd
    /\ net' = Deliver(net, Looped(r.sends))
    /\ op' = name
    /\ arg' = a
    /\ ret' = r.ret
    /\ sends' = r.sends
    /\ removes' = r.removes
    /\ decodes' = <<>>
    /\ recvd' = NoRecv

StartSendWith(item, out) ==
    LET r == start_send(Self, item, out) IN
    /\ Len(r.self.wr) <= MaxFrames * FrameLen
    /\ SinkStep("start_send", Some(item), r)

StartSend(item) == \E out \in SocketAnswers(Self) : StartSendWith(item, out)

PollCompleteWith(out) ==
    SinkStep("poll_complete", None, poll_complete(Self, out))

PollComplete == \E out \in SocketAnswers(Self) : PollCompleteWith(out)

Close ==
    \E out \in SocketAnswers(Self) :
      SinkStep("close", None, close(Self, out))

Poll ==
    \E i \in 0..Len(net) :
      \E rcv \in RecvOutcomes(IF i = 0 THEN ExtDatagrams ELSE {net[i]}) :
        LET r == poll(Self, rcv) IN
        /\ rd' = r.self.rd
        /\ wr' = r.self.wr
        /\ out_addr' = r.self.out_addr
        /\ flushed' = r.self.flushed
        /\ net' = IF i > 0 /\ rcv.kind = "Ready"
                  THEN SubSeq(net, 1, i - 1) \o SubSeq(net, i + 1, Len(net))
                  ELSE net
        /\ op' = "poll"
        /\ arg' = None
        /\ ret' = r.ret
        /\ sends' = <<>>
        /\ removes' = <<>>
        /\ decodes' = r.decodes
        /\ recvd' = rcv

\* The caller may call any method with any item at any time.
Next ==
    \/ \E item \in Items : StartSend(item)
    \/ PollComplete
    \/ Close
    \/ Poll

Spec == Init /\ [][Next]_vars

\* The answers of poll_send_to other than "would block".
Answers(s) == {o \in SocketAnswers(s) : ~WouldBlock(o)}

\* start_send handed `item` back to the caller.
Refused(item) ==
    op = "start_send" /\ arg = Some(item) /\ ret.tag = "NotReady"

\* A caller that resubmits the item start_send handed back.
Retry == \E item \in Items : Refused(item) /\ StartSend(item)

\* The retry, answered by the socket with something else than "would block".
RetryAnswered ==
    \E item \in Items :
      Refused(item) /\ \E out \in Answers(Self) : StartSendWith(item, out)

\* The caller is free to call any Sink method unless an item was handed back.
Submit ==
    /\ \A item \in Items : ~Refused(item)
    /\ \E item \in Items : StartSend(item)

Flush == (\A item \in Items : ~Refused(item)) /\ PollComplete

FlushAnswered ==
    /\ \A item \in Items : ~Refused(item)
    /\ \E out \in Answers(Self) : PollCompleteWith(out)

LiveNext == Retry \/ Submit \/ Flush

\* The caller keeps resubmitting a refused item and keeps flushing, over a
\* socket that does not answer "would block" for ever.
LiveSpec ==
    /\ Init /\ [][LiveNext]_vars
    /\ WF_vars(RetryAnswered)
    /\ SF_vars(FlushAnswered)

\* ------------------------------------------------------------- properties
\* The method called last made a poll_send_to call that failed with an error
\* other than WouldBlock.
HardSendError == sends # <<>> /\ sends[1].res.kind = "ErrOther"

\* The method called last made a poll_send_to call that wrote n < len bytes.
PartialWrite ==
    /\ sends # <<>>
    /\ sends[1].res.kind = "Ready"
    /\ sends[1].res.n < Len(sends[1].data)

\* The method called last made a poll_send_to call that would block.
SendWouldBlock == sends # <<>> /\ WouldBlock(sends[1].res)

\* C1: in every reachable state the send buffer holds the encoded bytes of at
\* most one submitted frame.
C1_AtMostOneFrameInWr == Len(FramesIn(wr)) <= 1

\* C2: a method whose poll_send_to fails with a hard error calls remove_peer
\* exactly once, with to_ipv6 of the address the send was addressed to (the
\* out_addr it found), and does not report the failure: poll_complete and
\* close return Ready, start_send goes on to encode the item.
C2_HardSendErrorRemovesPeer ==
    [][HardSendError' =>
         /\ sends'[1].addr = out_addr
         /\ removes' = <<to_ipv6(out_addr)>>
         /\ op' \in {"poll_complete", "close"} => ret' = Ready(<<>>)
         /\ op' = "start_send" =>
              \/ ret'.tag = "Ready"
              \/ ret'.tag = "Err" /\ ret'.val = <<"Encode">>
                                  /\ arg'[1].frame \notin Frames]_vars

C2_Witness ==
    /\ op = "poll_complete"
    /\ HardSendError
    /\ sends[1].addr = SelfAddr
    /\ removes = <<to_ipv6(SelfAddr)>>

\* C3: after a flush whose poll_send_to failed with a hard error, flushed is
\* true and the send buffer is empty.
C3_HardErrorLeavesFlushed ==
    (op \in {"poll_complete", "close"} /\ HardSendError)
        => (flushed /\ wr = <<>>)

\* C4: start_send called while flushed is false and whose flush would block
\* returns NotReady with the item it was given and changes neither the send
\* buffer, nor out_addr, nor flushed.
C4_BackpressureKeepsBoth ==
    [][(op' = "start_send" /\ ~flushed /\ SendWouldBlock') =>
         /\ ret' = NotReady(arg')
         /\ wr' = wr
         /\ out_addr' = out_addr
         /\ flushed' = flushed]_vars

C4_Witness ==
    /\ op = "start_send"
    /\ SendWouldBlock
    /\ ret.tag = "NotReady"
    /\ ~flushed
    /\ wr # <<>>

\* C5: the receive buffer is empty after every return of poll, and the bytes
\* poll hands to decode are exactly those of the datagram it just received.
C5_RdEmptyAfterPoll ==
    op = "poll" =>
        /\ rd = <<>>
        /\ decodes # <<>> =>
             /\ recvd.kind = "Ready"
             /\ decodes = <<recvd.dgram[1].data>>

C5_Witness ==
    /\ op = "poll"
    /\ recvd.kind = "Ready"
    /\ ret.tag = "Err"
    /\ decodes = <<recvd.dgram[1].data>>
    /\ rd = <<>>

\* C6: a hard error of poll_recv_from is returned by poll as an error; nothing
\* is decoded and remove_peer is not called.
C6_RecvErrorSurfaces ==
    (op = "poll" /\ recvd.kind = "Err") =>
        /\ ret.tag = "Err"
        /\ ret.val = <<"Io">>
        /\ decodes = <<>>
        /\ removes = <<>>

C6_Witness == op = "poll" /\ recvd.kind = "Err" /\ ret.tag = "Err"

\* The state a method leaves after a write of n < len bytes.
C7_AfterPartialWrite ==
    PartialWrite =>
        /\ op \in {"poll_complete", "close"} =>
             wr = <<>> /\ flushed /\ ret = Ready(<<>>)
        /\ op = "start_send" =>
             /\ ret.tag # "NotReady"
             /\ wr = encode(arg[1].frame, <<>>).buf

\* C7: a write of n < len bytes clears the send buffer and sets flushed, and
\* the method reports Ready; no later poll_send_to carries the bytes left
\* over: the next method sends nothing, and every poll_send_to carries the
\* send buffer as it is when the method is called.
C7_PartialWriteNoRetry ==
    /\ []C7_AfterPartialWrite
    /\ [][(PartialWrite /\ flushed) => sends' = <<>>]_vars
    /\ [][sends' # <<>> => sends'[1].data = wr]_vars

C7_Witness ==
    /\ op = "poll_complete"
    /\ PartialWrite
    /\ sends[1].res.n > 0
    /\ wr = <<>>

\* C8: a frame accepted by start_send and written in full to the adapter's
\* own address is what the poll that receives the datagram returns, with the
\* source address.
C8_RoundTrip ==
    (op = "poll" /\ recvd.kind = "Ready") =>
        \A i \in DOMAIN recvd.dgram[1].items :
            /\ ret.tag = "Ready"
            /\ ret.val = Some([frame |-> recvd.dgram[1].items[i],
                               addr  |-> SelfAddr])

\* C9: poll does not return the end-of-stream value Ready(None): not when a
\* peer is unreachable, and not when decode yields no frame.
C9_NoEndOfStream ==
    op = "poll" => ~(ret.tag = "Ready" /\ ret.val = None)

\* start_send accepted `item`.
Accepted(item) ==
    op = "start_send" /\ arg = Some(item) /\ ret.tag = "Ready"

\* start_send failed to encode `item`.
EncodeFailed(item) ==
    /\ op = "start_send" /\ arg = Some(item)
    /\ ret.tag = "Err" /\ ret.val = <<"Encode">>

SomeRefused == \E item \in Items : Refused(item)

\* C10 as stated: whatever the item, a caller that keeps resubmitting it is
\* no longer refused at some point, and is then answered Ready; and after an
\* accepted item a poll_complete eventually returns Ready.
C10_EveryItemAccepted ==
    /\ [][\A item \in Items :
            (Refused(item) /\ ~Refused(item)') => Accepted(item)']_vars
    /\ SomeRefused ~> ~SomeRefused
    /\ (op = "start_send" /\ ret.tag = "Ready")
           ~> (op = "poll_complete" /\ ret.tag = "Ready")

\* C10, amended: a caller that keeps resubmitting an item is no longer
\* refused at some point, and is then answered Ready if the codec encodes the
\* item and with the encode error if it does not; and after an accepted item
\* a poll_complete eventually returns Ready.  Hard send errors in between do
\* not prevent any of it.
C10_FailingPeerCannotHalt ==
    /\ [][\A item \in Items :
            (Refused(item) /\ ~Refused(item)') =>
                IF item.frame \in Frames THEN Accepted(item)'
                ELSE EncodeFailed(item)']_vars
    /\ SomeRefused ~> ~SomeRefused
    /\ (op = "start_send" /\ ret.tag = "Ready")
           ~> (op = "poll_complete" /\ ret.tag = "Ready")

\* An item sent to one peer is accepted by the start_send whose flush of the
\* frame for another peer failed with a hard error.
C10_Witness ==
    /\ op = "start_send"
    /\ ret.tag = "Ready"
    /\ HardSendError
    /\ arg[1].addr # sends[1].addr

\* C11: between operations, flushed is true exactly when the send buffer is
\* empty, and false exactly when the send buffer holds the encoded bytes of
\* one frame, no more and no less.
C11_FlushedIffOneFrameOwed ==
    /\ flushed <=> wr = <<>>
    /\ ~flushed <=> (Len(FramesIn(wr)) = 1 /\ Len(wr) = FrameLen)

\* C12: remove_peer is called only by a method whose poll_send_to failed with
\* a hard error: not when the send would block, not after a full or partial
\* write, not on an encode or decode error alone, and never by poll.
C12_RemovePeerOnlyOnHardSendError ==
    /\ removes # <<>> => (HardSendError /\ op # "poll")
    /\ (sends = <<>> \/ SendWouldBlock \/ sends[1].res.kind = "Ready")
           => removes = <<>>

\* close evicts the peer whose send failed hard.
C12_Witness ==
    /\ op = "close"
    /\ HardSendError
    /\ removes = <<to_ipv6(PeerA)>>

\* C13: every poll_send_to carries exactly the encoded bytes of the one frame
\* that was submitted together with the address it is sent to.  Stated step
\* by step: an accepting start_send leaves in the send buffer the bytes of
\* its item's frame and nothing else, and its item's address in out_addr; no
\* other step changes out_addr or the send buffer, except to empty the
\* buffer; and every poll_send_to carries the send buffer and out_addr as the
\* method found them.
C13_SendCarriesOnlyItsFrame ==
    /\ [][(op' = "start_send" /\ ret'.tag = "Ready") =>
            /\ wr' = encode(arg'[1].frame, <<>>).buf
            /\ out_addr' = arg'[1].addr]_vars
    /\ [][~(op' = "start_send" /\ ret'.tag = "Ready") =>
            /\ wr' \in {wr, <<>>}
            /\ out_addr' = out_addr]_vars
    /\ [][sends' # <<>> =>
            /\ sends'[1].data = wr
            /\ sends'[1].addr = out_addr]_vars

\* C14: a start_send whose encode fails returns the encode error and leaves
\* out_addr as it was and flushed as the flush before the encode left it
\* (true if poll_send_to wrote, else unchanged); the only poll_send_to it can
\* have made is that flush, of the buffer and address it found, so nothing is
\* sent or owed for the failed item.
C14_EncodeErrorOwesNothing ==
    [][(op' = "start_send" /\ ret'.tag = "Err") =>
         /\ ret'.val = <<"Encode">>
         /\ out_addr' = out_addr
         /\ flushed' = (flushed \/ (sends' # <<>> /\ sends'[1].res.kind = "Ready"))
         /\ sends' # <<>> =>
              /\ ~flushed
              /\ sends'[1].data = wr
              /\ sends'[1].addr = out_addr]_vars

\* The encode of an item for one peer fails after a frame for another peer
\* was flushed: out_addr still names the other peer and nothing is owed.
C14_Witness ==
    /\ op = "start_send"
    /\ ret.tag = "Err"
    /\ flushed
    /\ out_addr = SelfAddr
    /\ arg[1].addr = PeerA

\* C15: a poll_complete whose poll_send_to would block (Ok(NotReady) or
\* Err(WouldBlock)) returns NotReady, does not call remove_peer and changes
\* neither the send buffer, nor out_addr, nor flushed; the next method that
\* flushes, and any poll_complete called next, sends the same bytes to the
\* same address.
C15_WouldBlockKeepsFrame ==
    /\ [][(op' = "poll_complete" /\ SendWouldBlock') =>
            /\ ret' = NotReady(<<>>)
            /\ removes' = <<>>
            /\ wr' = wr
            /\ out_addr' = out_addr
            /\ flushed' = flushed]_vars
    /\ [][(op = "poll_complete" /\ SendWouldBlock) =>
            /\ op' = "poll_complete" => sends' # <<>>
            /\ sends' # <<>> =>
                 /\ sends'[1].data = sends[1].data
                 /\ sends'[1].addr = sends[1].addr]_vars

C15_Witness ==
    /\ op = "poll_complete"
    /\ sends # <<>>
    /\ sends[1].res.kind = "ErrWouldBlock"
    /\ ret.tag = "NotReady"
    /\ ~flushed
    /\ wr = sends[1].data
    /\ out_addr = sends[1].addr

\* What poll decodes, by what poll_recv_from answered.
C16_DecodesMatchReceives ==
    /\ op = "poll" =>
         IF recvd.kind = "Ready" THEN Len(decodes) = 1 ELSE decodes = <<>>
    /\ op # "poll" => decodes = <<>>
    /\ (op = "poll" /\ recvd.kind = "NotReady") => ret = NotReady(<<>>)

\* C16: poll calls decode exactly once when poll_recv_from delivers a
\* datagram and not at all when it would block or fails; no other method
\* calls decode; when poll_recv_from would block, poll returns NotReady and
\* leaves the receive buffer as it was.
C16_DecodeOncePerDatagram ==
    /\ []C16_DecodesMatchReceives
    /\ [][(op' = "poll" /\ recvd'.kind = "NotReady") => rd' = rd]_vars

C16_Witness ==
    /\ op = "poll"
    /\ recvd.kind = "NotReady"
    /\ ret.tag = "NotReady"
    /\ decodes = <<>>

\* C17: start_send encodes an item (it returns Ready or the encode error)
\* while an accepted frame is still owed only after it has itself made the
\* poll_send_to attempt for that frame, with that frame's buffer and address,
\* and the attempt did not answer "would block"; and a frame stops being owed
\* only through a poll_send_to that wrote.  So each accepted frame is
\* attempted before the next one is encoded: one in flight, in the order of
\* submission.
C17_AttemptBeforeNextEncode ==
    /\ [][(op' = "start_send" /\ ret'.tag \in {"Ready", "Err"} /\ ~flushed) =>
            /\ sends' # <<>>
            /\ ~WouldBlock(sends'[1].res)
            /\ sends'[1].data = wr
            /\ sends'[1].addr = out_addr]_vars
    /\ [][(~flushed /\ flushed') =>
            /\ sends' # <<>>
            /\ sends'[1].res.kind = "Ready"
            /\ sends'[1].data = wr]_vars

\* A second item is accepted by the start_send that wrote the first in full.
C17_Witness ==
    /\ op = "start_send"
    /\ ret.tag = "Ready"
    /\ sends # <<>>
    /\ sends[1].res.kind = "Ready"
    /\ sends[1].res.n = Len(sends[1].data)
    /\ FramesIn(sends[1].data) = <<1>>
    /\ arg[1].frame = 2
    /\ wr = encode(2, <<>>).buf

\* What close returns, by what its flush did.
C18_CloseResult ==
    op = "close" =>
        /\ Len(sends) <= 1
        /\ sends = <<>> => ret = Ready(<<>>)
        /\ ret.tag # "Err"
        /\ ret = IF SendWouldBlock THEN NotReady(<<>>) ELSE Ready(<<>>)

\* C18: close makes at most one poll_send_to call, the one of a single flush:
\* it returns NotReady exactly when that call would block and Ready otherwise,
\* never an error, also when the send failed hard; and it leaves the state,
\* the send and the remove_peer call that poll_complete would have left with
\* the same answer of the socket.
C18_CloseIsOneFlush ==
    /\ []C18_CloseResult
    /\ [][op' = "close" =>
            LET out == IF sends' = <<>> THEN NoAnswer ELSE sends'[1].res
                r   == poll_complete(Self, out)
            IN  /\ <<rd', wr', out_addr', flushed'>>
                     = <<r.self.rd, r.self.wr, r.self.out_addr, r.self.flushed>>
                /\ ret' = r.ret
                /\ sends' = r.sends
                /\ removes' = r.removes]_vars

C18_Witness ==
    /\ op = "close"
    /\ sends # <<>>
    /\ sends[1].res.kind = "NotReady"
    /\ ret.tag = "NotReady"
    /\ ~flushed

\* C19: poll_complete called while flushed is true returns Ready, calls
\* neither poll_send_to nor remove_peer and changes no field of the adapter,
\* nor what is on the wire.
C19_FlushedPollCompleteIsNoOp ==
    [][(op' = "poll_complete" /\ flushed) =>
         /\ ret' = Ready(<<>>)
         /\ sends' = <<>>
         /\ removes' = <<>>
         /\ <<rd', wr', out_addr', flushed'>> = <<rd, wr, out_addr, flushed>>
         /\ net' = net]_vars

\* poll_complete on an adapter that never sent: the state new() left.
C19_Witness ==
    /\ op = "poll_complete"
    /\ sends = <<>>
    /\ ret = Ready(<<>>)
    /\ Self = new

\* C20: poll changes neither the send buffer, nor out_addr, nor flushed;
\* start_send, poll_complete and close do not change the receive buffer; and
\* out_addr changes only in a start_send that returns Ready.
C20_PathsKeepSeparateState ==
    [][/\ op' = "poll" =>
            <<wr', out_addr', flushed'>> = <<wr, out_addr, flushed>>
       /\ op' \in {"start_send", "poll_complete", "close"} => rd' = rd
       /\ out_addr' # out_addr =>
            (op' = "start_send" /\ ret'.tag = "Ready")]_vars

\* poll received a datagram while a frame was owed, and the frame still is.
C20_Witness ==
    /\ op = "poll"
    /\ recvd.kind = "Ready"
    /\ ~flushed
    /\ wr = encode(1, <<>>).buf
    /\ out_addr = PeerA

====
